---- MODULE Spec2Model ----
(***************************************************************************)
(* send-invalid-tx: a conformance harness that builds a baseline           *)
(* transaction and six invalid variants, has each hashed and signed by the *)
(* kms service, submits it to the controller and asserts the outcome.      *)
(*                                                                         *)
(* The model follows src/send-invalid-tx/src/main.rs: the transaction      *)
(* constructors are operators, run() and send_tx() are a sequential        *)
(* program whose blocking calls are split into the request and its         *)
(* response, and the two services are the environment.                     *)
(***************************************************************************)
EXTENDS Integers, Sequences, FiniteSets, TLC

----------------------------------------------------------------------------
(* u64 arithmetic.                                                         *)
(* A u64 x is written as its residue modulo 2^64 taken closest to zero:    *)
(* r >= 0 stands for x = r and r < 0 stands for x = 2^64 + r, so -1 is     *)
(* u64::MAX.  Only values within 2^30 of either end of the range occur.    *)
(* Adding a small constant is then integer addition, and the addition      *)
(* carries out of 64 bits exactly when r < 0 and r + c >= 0.               *)

\* 2^64 - k
FromTop(k) == 0 - k

\* whether x + c exceeds u64::MAX
Overflows(x, c) == x < 0 /\ x + c >= 0

\* x + c modulo 2^64
WrappingAdd(x, c) == x + c

\* whether a and b lie at the same end of the u64 range
SameEnd(a, b) == (a < 0) = (b < 0)

\* vec![b; n]
Bytes(n, b) == [i \in 1..n |-> b]

----------------------------------------------------------------------------
(* Transaction factory                                                     *)

\* the result of a constructor whose `+` overflowed in a build with overflow
\* checks: the thread panics with "attempt to add with overflow"
Panic == [panic |-> "attempt to add with overflow"]

Panicked(t) == "panic" \in DOMAIN t

VubOffset == 80
VubOffset2 == 200

\* the u64 `x` itself, no addition
Plain(x) == [overflow |-> FALSE, value |-> x]

\* `x + c` on u64: wraps in a build without overflow checks, panics in one with
AddU64(checks, x, c) ==
    [overflow |-> Overflows(x, c) /\ checks, value |-> WrappingAdd(x, c)]

LongNonce ==
    "1testtesttesttesttesttesttesttesttesttesttesttesttesttesttesttesttesttesttesttesttesttesttesttesttesttesttesttesttesttesttesttest"

Transaction(ver, nonce, vub, value, chain_id) ==
    IF vub.overflow THEN Panic
    ELSE [version |-> ver,
          to |-> Bytes(21, 1),
          nonce |-> nonce,
          quota |-> 300000,
          valid_until_block |-> vub.value,
          data |-> <<>>,
          value |-> value,
          chain_id |-> chain_id]

build_tx(checks, h) ==
    Transaction(0, "test", AddU64(checks, h, VubOffset), Bytes(32, 0), Bytes(32, 0))

invalid_version_tx(checks, h) ==
    Transaction(1, "test", AddU64(checks, h, VubOffset), Bytes(32, 0), Bytes(32, 0))

\* faulty variant: a nonce of exactly the 128 bytes the rule allows
invalid_nonce_tx_128(checks, h) ==
    Transaction(0, SubSeq(LongNonce, 2, 129), AddU64(checks, h, VubOffset),
                Bytes(32, 0), Bytes(32, 0))

invalid_nonce_tx(checks, h) ==
    Transaction(0, LongNonce, AddU64(checks, h, VubOffset), Bytes(32, 0), Bytes(32, 0))

invalid_vub_tx1(checks, h) ==
    Transaction(0, "test", Plain(h), Bytes(32, 0), Bytes(32, 0))

invalid_vub_tx2(checks, h) ==
    Transaction(0, "test", AddU64(checks, h, VubOffset2), Bytes(32, 0), Bytes(32, 0))

\* faulty variant: the chain id is shortened along with the value
invalid_value_tx_both(checks, h) ==
    Transaction(0, "test", AddU64(checks, h, VubOffset), Bytes(31, 0), Bytes(31, 0))

invalid_value_tx(checks, h) ==
    Transaction(0, "test", AddU64(checks, h, VubOffset), Bytes(31, 0), Bytes(32, 0))

invalid_chain_id_tx(checks, h) ==
    Transaction(0, "test", AddU64(checks, h, VubOffset), Bytes(32, 0), Bytes(31, 0))

----------------------------------------------------------------------------
(* The eight scenarios of run(): the transaction each submits and the      *)
(* literal its outcome is asserted against.                                *)

NumScenarios == 8

\* faulty variant: the version and nonce scenarios swapped
ScenarioTxReordered(k, checks, h) ==
    CASE k = 1 -> build_tx(checks, h)
      [] k = 2 -> build_tx(checks, h)
      [] k = 3 -> invalid_nonce_tx(checks, h)
      [] k = 4 -> invalid_version_tx(checks, h)
      [] k = 5 -> invalid_vub_tx1(checks, h)
      [] k = 6 -> invalid_vub_tx2(checks, h)
      [] k = 7 -> invalid_value_tx(checks, h)
      [] k = 8 -> invalid_chain_id_tx(checks, h)

\* faulty variant: the second scenario builds a baseline of its own, with a new nonce
ScenarioTxFreshBaseline(k, checks, h) ==
    CASE k = 1 -> build_tx(checks, h)
      [] k = 2 -> Transaction(0, "test2", AddU64(checks, h, VubOffset),
                              Bytes(32, 0), Bytes(32, 0))
      [] k = 3 -> invalid_version_tx(checks, h)
      [] k = 4 -> invalid_nonce_tx(checks, h)
      [] k = 5 -> invalid_vub_tx1(checks, h)
      [] k = 6 -> invalid_vub_tx2(checks, h)
      [] k = 7 -> invalid_value_tx(checks, h)
      [] k = 8 -> invalid_chain_id_tx(checks, h)

ScenarioTx(k, checks, h) ==
    CASE k = 1 -> build_tx(checks, h)
      [] k = 2 -> build_tx(checks, h)
      [] k = 3 -> invalid_version_tx(checks, h)
      [] k = 4 -> invalid_nonce_tx(checks, h)
      [] k = 5 -> invalid_vub_tx1(checks, h)
      [] k = 6 -> invalid_vub_tx2(checks, h)
      [] k = 7 -> invalid_value_tx(checks, h)
      [] k = 8 -> invalid_chain_id_tx(checks, h)

\* faulty variant: the last two expected literals exchanged
ExpectedSwapped(k) ==
    CASE k = 1 -> ""
      [] k = 2 -> "dup"
      [] k = 3 -> "Invalid version"
      [] k = 4 -> "Invalid nonce"
      [] k = 5 -> "Invalid valid_until_block"
      [] k = 6 -> "Invalid valid_until_block"
      [] k = 7 -> "Invalid chain_id"
      [] k = 8 -> "Invalid value"

Expected(k) ==
    CASE k = 1 -> ""
      [] k = 2 -> "dup"
      [] k = 3 -> "Invalid version"
      [] k = 4 -> "Invalid nonce"
      [] k = 5 -> "Invalid valid_until_block"
      [] k = 6 -> "Invalid valid_until_block"
      [] k = 7 -> "Invalid value"
      [] k = 8 -> "Invalid chain_id"

----------------------------------------------------------------------------
(* Wire encoding: prost writes the fields in tag order and leaves out a    *)
(* field holding its default (0, "" or no bytes).                          *)

IsDefault(kind, v) ==
    CASE kind = "uint" -> v = 0
      [] kind = "string" -> Len(v) = 0
      [] kind = "bytes" -> Len(v) = 0

Fields(t) ==
    << <<1, "uint", t.version>>, <<2, "bytes", t.to>>, <<3, "string", t.nonce>>,
       <<4, "uint", t.quota>>, <<5, "uint", t.valid_until_block>>,
       <<6, "bytes", t.data>>, <<7, "bytes", t.value>>, <<8, "bytes", t.chain_id>> >>

\* tx.encode(&mut tx_bytes)
Encode(t) == SelectSeq(Fields(t), LAMBDA f : ~IsDefault(f[2], f[3]))

----------------------------------------------------------------------------
(* The kms service: hashing and signing are deterministic, and two         *)
(* different byte strings do not share a hash.                             *)

KmsHash(data) == [digest_of |-> data]

KmsSign(key_id, msg) == [signed |-> msg, with_key |-> key_id]

----------------------------------------------------------------------------
(* The controller's admission rules, as the data model states them.        *)

SupportedVersion == 0
MaxNonceLen == 128
ValidWindow == 80
ValueLen == 32
ChainIdLen == 32

\* current < vub <= current + ValidWindow, over the integers
InWindow(vub, current) ==
    SameEnd(vub, current) /\ vub - current >= 1 /\ vub - current <= ValidWindow

\* the messages of the rules transaction t breaks at height current
Violations(t, current) ==
    {m \in {"Invalid version", "Invalid nonce", "Invalid valid_until_block",
            "Invalid value", "Invalid chain_id"} :
        CASE m = "Invalid version" -> t.version # SupportedVersion
          [] m = "Invalid nonce" -> Len(t.nonce) > MaxNonceLen
          [] m = "Invalid valid_until_block" -> ~InWindow(t.valid_until_block, current)
          [] m = "Invalid value" -> Len(t.value) # ValueLen
          [] m = "Invalid chain_id" -> Len(t.chain_id) # ChainIdLen}

\* a response of send_raw_transaction: Ok(..) or Err(status)
Ok == [code |-> "Ok", message |-> ""]
Err(code, message) == [code |-> code, message |-> message]

\* the responses of a controller that enforces the rules: a remembered hash is
\* rejected as "dup", a broken rule with that rule's message (whichever rule
\* it looks at first), anything else is accepted
Admit(raw_tx, current, seen) ==
    IF raw_tx.transaction_hash \in seen
    THEN {Err("InvalidArgument", "dup")}
    ELSE IF Violations(raw_tx.transaction, current) = {}
         THEN {Ok}
         ELSE {Err("InvalidArgument", m) : m \in Violations(raw_tx.transaction, current)}

\* what a controller may answer when nothing is assumed about it: success, a
\* rejection with any message, or (code Unavailable) a failure of the call
\* itself
Messages ==
    {"", "dup", "Invalid version", "Invalid nonce", "Invalid valid_until_block",
     "Invalid value", "Invalid chain_id"}

AnyResponse ==
    {Ok} \cup {Err("InvalidArgument", m) : m \in Messages}
         \cup {Err("Unavailable", m) : m \in {"", "transport error"}}

----------------------------------------------------------------------------
(* Bounds of the model                                                     *)

\* the controller starts at a height in 0..MaxLowHeight or near u64::MAX
MaxLowHeight == 1
\* key ids the kms may issue: 1..MaxKeyId
MaxKeyId == 2
\* how many times the chain grows during a run
MaxAdvances == 1

Heights ==
    (0..MaxLowHeight)
    \cup {FromTop(1), FromTop(VubOffset), FromTop(VubOffset + 1),
          FromTop(VubOffset2), FromTop(VubOffset2 + 1)}

\* the identities the kms may issue: a key id and the address derived from it
Identities == {[key_id |-> k, address |-> Bytes(20, k)] : k \in 1..MaxKeyId}

\* by how many blocks the chain may grow in one step
AdvanceSteps == {1, ValidWindow - 1, ValidWindow}

----------------------------------------------------------------------------
(* State                                                                   *)

VARIABLES
    pc,                 \* the statement of run()/send_tx() about to execute
    scn,                \* the scenario (1..8) run() is in, 0 before the first
    failure,            \* why the run panicked: "none", "call", "overflow", "mismatch"
    overflow_checks,    \* whether the build checks arithmetic overflow
    key_id, address,    \* run(): the identity returned by generate_key_pair
    start_block_number, \* run(): the height returned by get_block_number
    run_kms_client, run_rpc_client,  \* run(): its two connections
    kms_client, rpc_client,          \* send_tx(): its two connections
    tx, tx_hash, signature,          \* send_tx(): locals
    outcomes,           \* the strings send_tx() has returned, one per scenario
    calls,              \* every external call issued so far, in order
    pending,            \* the calls (indices of calls) awaiting their response
    last_response,      \* the controller's answer to the last submission
    kms_conns, rpc_conns,  \* connections opened to each service so far
    ledgerKind,         \* "rules": the controller enforces the admission rules; "any": it may answer anything
    block_number,       \* the controller's current height
    advances,           \* how many times the chain has grown
    pool,               \* the hashes of the transactions the controller accepted
    kms_keys,           \* the identities the kms has issued
    submit_height       \* the controller's height when it answered the last submission

vars ==
    <<pc, scn, failure, overflow_checks, key_id, address, start_block_number,
      run_kms_client, run_rpc_client, kms_client, rpc_client, tx, tx_hash,
      signature, outcomes, calls, pending, last_response, kms_conns, rpc_conns,
      ledgerKind, block_number, advances, pool, submit_height, kms_keys>>

\* variables of the program that a call's request or response may leave alone
runLocals == <<key_id, address, start_block_number, run_kms_client, run_rpc_client>>
txLocals == <<kms_client, rpc_client, tx, tx_hash, signature>>
ledgerVars == <<ledgerKind, block_number, advances, pool, submit_height>>

NoConn == 0
NoKey == 0
NoAddress == <<>>
\* a height not yet assigned is <<>>, an assigned one <<h>>
NoHeight == <<>>
NoTx == [none |-> "tx"]
NoBytes == [none |-> "bytes"]
NoResponse == [code |-> "none", message |-> ""]

Init ==
    /\ pc = "connect_kms"
    /\ scn = 0
    /\ failure = "none"
    /\ overflow_checks \in BOOLEAN
    /\ key_id = NoKey
    /\ address = NoAddress
    /\ start_block_number = NoHeight
    /\ run_kms_client = NoConn
    /\ run_rpc_client = NoConn
    /\ kms_client = NoConn
    /\ rpc_client = NoConn
    /\ tx = NoTx
    /\ tx_hash = NoBytes
    /\ signature = NoBytes
    /\ outcomes = <<>>
    /\ calls = <<>>
    /\ pending = {}
    /\ last_response = NoResponse
    /\ kms_conns = 0
    /\ rpc_conns = 0
    /\ ledgerKind \in {"rules", "any"}
    /\ block_number \in Heights
    /\ advances = 0
    /\ pool = {}
    /\ kms_keys = {}
    /\ submit_height = NoHeight

----------------------------------------------------------------------------
(* Blocking calls: rt.block_on(client.call(request)) issues the request    *)
(* and resumes with the response.                                          *)

Call(op, svc, conn, req) == [op |-> op, svc |-> svc, conn |-> conn, scn |-> scn, req |-> req]

\* faulty variant: a call is issued without waiting for the one in flight
IssueWithoutWaiting(at, call) ==
    /\ pc = at
    /\ calls' = Append(calls, call)
    /\ pending' = pending \cup {Len(calls) + 1}

\* issue a call at statement `at`
Issue(at, call) ==
    /\ pc = at
    /\ pending = {}
    /\ calls' = Append(calls, call)
    /\ pending' = {Len(calls) + 1}

\* the response to the call issued at statement `at` has arrived
Resume(at, next) ==
    /\ pc = at
    /\ pending # {}
    /\ pending' = pending \ {Len(calls)}
    /\ pc' = next
    /\ UNCHANGED calls

\* the call awaiting its response
Outstanding == calls[Len(calls)]

----------------------------------------------------------------------------
(* run(), up to the first scenario                                         *)

\* KmsServiceClient::connect(kms_addr)
RunConnectKms ==
    /\ Issue("connect_kms", Call("connect", "kms", NoConn, <<>>))
    /\ UNCHANGED <<pc, scn, failure, overflow_checks, runLocals, txLocals, outcomes,
                   last_response, kms_conns, rpc_conns, ledgerVars, kms_keys>>

RunConnectKmsReturn ==
    /\ Resume("connect_kms", "connect_rpc")
    /\ kms_conns' = kms_conns + 1
    /\ run_kms_client' = kms_conns + 1
    /\ UNCHANGED <<scn, failure, overflow_checks, key_id, address, start_block_number,
                   run_rpc_client, txLocals, outcomes, last_response, rpc_conns,
                   ledgerVars, kms_keys>>

\* RpcServiceClient::connect(controller_addr)
RunConnectRpc ==
    /\ Issue("connect_rpc", Call("connect", "controller", NoConn, <<>>))
    /\ UNCHANGED <<pc, scn, failure, overflow_checks, runLocals, txLocals, outcomes,
                   last_response, kms_conns, rpc_conns, ledgerVars, kms_keys>>

RunConnectRpcReturn ==
    /\ Resume("connect_rpc", "generate_key_pair")
    /\ rpc_conns' = rpc_conns + 1
    /\ run_rpc_client' = rpc_conns + 1
    /\ UNCHANGED <<scn, failure, overflow_checks, key_id, address, start_block_number,
                   run_kms_client, txLocals, outcomes, last_response, kms_conns,
                   ledgerVars, kms_keys>>

\* kms_client.generate_key_pair(GenerateKeyPairRequest {crypt_type: 1, description: "test"})
GenerateKeyPair ==
    /\ Issue("generate_key_pair",
             Call("generate_key_pair", "kms", run_kms_client,
                  [crypt_type |-> 1, description |-> "test"]))
    /\ UNCHANGED <<pc, scn, failure, overflow_checks, runLocals, txLocals, outcomes,
                   last_response, kms_conns, rpc_conns, ledgerVars, kms_keys>>

GenerateKeyPairReturn ==
    /\ Resume("generate_key_pair", "get_block_number")
    /\ \E response \in Identities :
          /\ kms_keys' = kms_keys \cup {response}
          /\ key_id' = response.key_id
          /\ address' = response.address
    /\ UNCHANGED <<scn, failure, overflow_checks, start_block_number, run_kms_client,
                   run_rpc_client, txLocals, outcomes, last_response, kms_conns,
                   rpc_conns, ledgerVars>>

\* rpc_client.get_block_number(Flag {flag: false})
GetBlockNumber ==
    /\ Issue("get_block_number",
             Call("get_block_number", "controller", run_rpc_client, [flag |-> FALSE]))
    /\ UNCHANGED <<pc, scn, failure, overflow_checks, runLocals, txLocals, outcomes,
                   last_response, kms_conns, rpc_conns, ledgerVars, kms_keys>>

\* the controller answers with its current height; run() goes on to scenario 1
GetBlockNumberReturn ==
    /\ Resume("get_block_number", "build")
    /\ start_block_number' = <<block_number>>
    /\ scn' = 1
    /\ UNCHANGED <<failure, overflow_checks, key_id, address, run_kms_client,
                   run_rpc_client, txLocals, outcomes, last_response, kms_conns,
                   rpc_conns, ledgerVars, kms_keys>>

\* an unwrap() of a call that failed: the connect, generate_key_pair,
\* get_block_number, hash_data or sign_message in flight returns Err
UnwrapErr ==
    /\ pending # {}
    /\ Outstanding.op # "send_raw_transaction"
    /\ pending' = {}
    /\ pc' = "panicked"
    /\ failure' = "call"
    /\ UNCHANGED <<scn, overflow_checks, runLocals, txLocals, outcomes, calls,
                   last_response, kms_conns, rpc_conns, ledgerVars, kms_keys>>

----------------------------------------------------------------------------
(* One scenario: the argument of send_tx(), send_tx() and the assert_eq!   *)

\* the constructor call in the argument list of send_tx()
BuildScenarioTx ==
    /\ pc = "build"
    /\ LET t == ScenarioTx(scn, overflow_checks, start_block_number[1])
       IN  IF Panicked(t)
           THEN /\ pc' = "panicked"
                /\ failure' = "overflow"
                /\ tx' = tx
           ELSE /\ pc' = "tx_connect_kms"
                /\ failure' = failure
                /\ tx' = t
    /\ UNCHANGED <<scn, overflow_checks, runLocals, kms_client, rpc_client, tx_hash,
                   signature, outcomes, calls, pending, last_response, kms_conns,
                   rpc_conns, ledgerVars, kms_keys>>

\* send_tx(): KmsServiceClient::connect(kms_addr)
SendTxConnectKms ==
    /\ Issue("tx_connect_kms", Call("connect", "kms", NoConn, <<>>))
    /\ UNCHANGED <<pc, scn, failure, overflow_checks, runLocals, txLocals, outcomes,
                   last_response, kms_conns, rpc_conns, ledgerVars, kms_keys>>

SendTxConnectKmsReturn ==
    /\ Resume("tx_connect_kms", "tx_connect_rpc")
    /\ kms_conns' = kms_conns + 1
    /\ kms_client' = kms_conns + 1
    /\ UNCHANGED <<scn, failure, overflow_checks, runLocals, rpc_client, tx, tx_hash,
                   signature, outcomes, last_response, rpc_conns, ledgerVars, kms_keys>>

\* send_tx(): RpcServiceClient::connect(controller_addr)
SendTxConnectRpc ==
    /\ Issue("tx_connect_rpc", Call("connect", "controller", NoConn, <<>>))
    /\ UNCHANGED <<pc, scn, failure, overflow_checks, runLocals, txLocals, outcomes,
                   last_response, kms_conns, rpc_conns, ledgerVars, kms_keys>>

SendTxConnectRpcReturn ==
    /\ Resume("tx_connect_rpc", "hash_data")
    /\ rpc_conns' = rpc_conns + 1
    /\ rpc_client' = rpc_conns + 1
    /\ UNCHANGED <<scn, failure, overflow_checks, runLocals, kms_client, tx, tx_hash,
                   signature, outcomes, last_response, kms_conns, ledgerVars, kms_keys>>

\* faulty variant: the hash is requested on run()'s connection
HashDataOnRunClient ==
    /\ Issue("hash_data",
             Call("hash_data", "kms", run_kms_client,
                  [key_id |-> key_id, data |-> Encode(tx)]))
    /\ UNCHANGED <<pc, scn, failure, overflow_checks, runLocals, txLocals, outcomes,
                   last_response, kms_conns, rpc_conns, ledgerVars, kms_keys>>

\* kms_client.hash_data(HashDataRequest {key_id, data: tx_bytes})
HashData ==
    /\ Issue("hash_data",
             Call("hash_data", "kms", kms_client, [key_id |-> key_id, data |-> Encode(tx)]))
    /\ UNCHANGED <<pc, scn, failure, overflow_checks, runLocals, txLocals, outcomes,
                   last_response, kms_conns, rpc_conns, ledgerVars, kms_keys>>

HashDataReturn ==
    /\ Resume("hash_data", "sign_message")
    /\ tx_hash' = KmsHash(Outstanding.req.data)
    /\ UNCHANGED <<scn, failure, overflow_checks, runLocals, kms_client, rpc_client, tx,
                   signature, outcomes, last_response, kms_conns, rpc_conns, ledgerVars, kms_keys>>

\* faulty variant: the signature is requested under a fixed key id
SignMessageFixedKey ==
    /\ Issue("sign_message",
             Call("sign_message", "kms", kms_client, [key_id |-> 1, msg |-> tx_hash]))
    /\ UNCHANGED <<pc, scn, failure, overflow_checks, runLocals, txLocals, outcomes,
                   last_response, kms_conns, rpc_conns, ledgerVars, kms_keys>>

\* kms_client.sign_message(SignMessageRequest {key_id, msg: tx_hash.clone()})
SignMessage ==
    /\ Issue("sign_message",
             Call("sign_message", "kms", kms_client, [key_id |-> key_id, msg |-> tx_hash]))
    /\ UNCHANGED <<pc, scn, failure, overflow_checks, runLocals, txLocals, outcomes,
                   last_response, kms_conns, rpc_conns, ledgerVars, kms_keys>>

SignMessageReturn ==
    /\ Resume("sign_message", "send_raw_transaction")
    /\ signature' = KmsSign(Outstanding.req.key_id, Outstanding.req.msg)
    /\ UNCHANGED <<scn, failure, overflow_checks, runLocals, kms_client, rpc_client, tx,
                   tx_hash, outcomes, last_response, kms_conns, rpc_conns, ledgerVars, kms_keys>>

\* faulty variant: the hash and the signature change places in the envelope
RawTransactionSwapped(t, hash, sig, sender) ==
    [kind |-> "NormalTx",
     transaction |-> t,
     transaction_hash |-> sig,
     witness |-> [signature |-> hash, sender |-> sender]]

\* RawTransaction {tx: Some(Tx::NormalTx(UnverifiedTransaction {..}))}
RawTransaction(t, hash, sig, sender) ==
    [kind |-> "NormalTx",
     transaction |-> t,
     transaction_hash |-> hash,
     witness |-> [signature |-> sig, sender |-> sender]]

\* rpc_client.send_raw_transaction(raw_tx)
SendRawTransaction ==
    /\ Issue("send_raw_transaction",
             Call("send_raw_transaction", "controller", rpc_client,
                  RawTransaction(tx, tx_hash, signature, address)))
    /\ UNCHANGED <<pc, scn, failure, overflow_checks, runLocals, txLocals, outcomes,
                   last_response, kms_conns, rpc_conns, ledgerVars, kms_keys>>

\* match ret { Ok(_) => "", Err(status) => status.message() }
Outcome(ret) == IF ret.code = "Ok" THEN "" ELSE ret.message

\* faulty variant: an error answer makes send_tx() submit again
SendRawTransactionReturnRetry ==
    /\ pc = "send_raw_transaction"
    /\ pending # {}
    /\ pending' = pending \ {Len(calls)}
    /\ \E ret \in (IF ledgerKind = "rules"
                   THEN Admit(Outstanding.req, block_number, pool)
                   ELSE AnyResponse) :
          /\ last_response' = ret
          /\ pool' = IF ret.code = "Ok"
                     THEN pool \cup {Outstanding.req.transaction_hash}
                     ELSE pool
          /\ IF ret.code = "Ok"
             THEN /\ pc' = "assert_eq"
                  /\ outcomes' = Append(outcomes, Outcome(ret))
                  /\ kms_client' = NoConn
                  /\ rpc_client' = NoConn
                  /\ tx' = NoTx
                  /\ tx_hash' = NoBytes
                  /\ signature' = NoBytes
             ELSE /\ pc' = "send_raw_transaction"
                  /\ UNCHANGED <<outcomes, txLocals>>
    /\ submit_height' = <<block_number>>
    /\ UNCHANGED <<scn, failure, overflow_checks, runLocals, calls, kms_conns,
                   rpc_conns, ledgerKind, block_number, advances,
                   kms_keys>>

\* the controller answers the submission and send_tx() returns the outcome,
\* dropping its locals
SendRawTransactionReturn ==
    /\ Resume("send_raw_transaction", "assert_eq")
    /\ \E ret \in (IF ledgerKind = "rules"
                   THEN Admit(Outstanding.req, block_number, pool)
                   ELSE AnyResponse) :
          /\ last_response' = ret
          /\ pool' = IF ret.code = "Ok"
                     THEN pool \cup {Outstanding.req.transaction_hash}
                     ELSE pool
          /\ outcomes' = Append(outcomes, Outcome(ret))
    /\ submit_height' = <<block_number>>
    /\ kms_client' = NoConn
    /\ rpc_client' = NoConn
    /\ tx' = NoTx
    /\ tx_hash' = NoBytes
    /\ signature' = NoBytes
    /\ UNCHANGED <<scn, failure, overflow_checks, runLocals, kms_conns, rpc_conns,
                   ledgerKind, block_number, advances,
                   kms_keys>>

\* faulty variant: a mismatch is passed over and the run goes on
AssertEqContinue ==
    /\ pc = "assert_eq"
    /\ pc' = IF scn = NumScenarios THEN "done" ELSE "build"
    /\ scn' = IF scn = NumScenarios THEN scn ELSE scn + 1
    /\ UNCHANGED <<failure, overflow_checks, runLocals, txLocals, outcomes, calls,
                   pending, last_response, kms_conns, rpc_conns, ledgerVars, kms_keys>>

\* faulty variant: a mismatch leaves the run waiting instead of ending it
AssertEqHang ==
    /\ pc = "assert_eq"
    /\ outcomes[scn] = Expected(scn)
    /\ pc' = IF scn = NumScenarios THEN "done" ELSE "build"
    /\ scn' = IF scn = NumScenarios THEN scn ELSE scn + 1
    /\ UNCHANGED <<failure, overflow_checks, runLocals, txLocals, outcomes, calls,
                   pending, last_response, kms_conns, rpc_conns, ledgerVars, kms_keys>>

\* assert_eq!(send_tx(..), expected): a mismatch panics, a match goes on to
\* the next scenario or, after the last, returns from run()
AssertEq ==
    /\ pc = "assert_eq"
    /\ IF outcomes[scn] # Expected(scn)
       THEN /\ pc' = "panicked"
            /\ failure' = "mismatch"
            /\ scn' = scn
       ELSE /\ pc' = IF scn = NumScenarios THEN "done" ELSE "build"
            /\ failure' = failure
            /\ scn' = IF scn = NumScenarios THEN scn ELSE scn + 1
    /\ UNCHANGED <<overflow_checks, runLocals, txLocals, outcomes, calls, pending,
                   last_response, kms_conns, rpc_conns, ledgerVars, kms_keys>>

----------------------------------------------------------------------------
(* The chain grows while the run is under way.  Only the height at which   *)
(* the controller answers a height query or a submission is ever seen, so  *)
(* the growth is taken while such a call is in flight.                     *)

LedgerAdvance ==
    /\ pending # {}
    /\ Outstanding.op \in {"get_block_number", "send_raw_transaction"}
    /\ advances < MaxAdvances
    /\ \E d \in AdvanceSteps :
          /\ ~Overflows(block_number, d)
          /\ block_number' = WrappingAdd(block_number, d)
    /\ advances' = advances + 1
    /\ UNCHANGED <<pc, scn, failure, overflow_checks, runLocals, txLocals, outcomes,
                   calls, pending, last_response, kms_conns, rpc_conns, ledgerKind,
                   pool, submit_height, kms_keys>>

----------------------------------------------------------------------------

Next ==
    \/ RunConnectKms \/ RunConnectKmsReturn
    \/ RunConnectRpc \/ RunConnectRpcReturn
    \/ GenerateKeyPair \/ GenerateKeyPairReturn
    \/ GetBlockNumber \/ GetBlockNumberReturn
    \/ BuildScenarioTx
    \/ SendTxConnectKms \/ SendTxConnectKmsReturn
    \/ SendTxConnectRpc \/ SendTxConnectRpcReturn
    \/ HashData \/ HashDataReturn
    \/ SignMessage \/ SignMessageReturn
    \/ SendRawTransaction \/ SendRawTransactionReturn
    \/ AssertEq
    \/ UnwrapErr
    \/ LedgerAdvance

\* the statements of run() and send_tx() that do not wait for a service
ProgramStep ==
    \/ RunConnectKms \/ RunConnectRpc \/ GenerateKeyPair \/ GetBlockNumber
    \/ BuildScenarioTx
    \/ SendTxConnectKms \/ SendTxConnectRpc \/ HashData \/ SignMessage
    \/ SendRawTransaction
    \/ AssertEq

\* a service answers the call in flight, with a response or an error
Response ==
    \/ RunConnectKmsReturn \/ RunConnectRpcReturn
    \/ GenerateKeyPairReturn \/ GetBlockNumberReturn
    \/ SendTxConnectKmsReturn \/ SendTxConnectRpcReturn
    \/ HashDataReturn \/ SignMessageReturn
    \/ SendRawTransactionReturn
    \/ UnwrapErr

Spec == Init /\ [][Next]_vars

\* the single thread keeps running, and every call in flight is answered
FairSpec == Spec /\ WF_vars(ProgramStep) /\ WF_vars(Response)

----------------------------------------------------------------------------
(* Properties                                                              *)

\* the submissions issued so far
Submits == SelectSeq(calls, LAMBDA c : c.op = "send_raw_transaction")

\* the submissions of scenario k
SubmitsOf(k) == SelectSeq(calls, LAMBDA c : c.op = "send_raw_transaction" /\ c.scn = k)

\* the outcomes the eight scenarios are to have, in order
ScenarioTable ==
    <<"", "dup", "Invalid version", "Invalid nonce", "Invalid valid_until_block",
      "Invalid valid_until_block", "Invalid value", "Invalid chain_id">>

\* an outcome observed so far differs from the table
MismatchSeen == \E k \in 1..Len(outcomes) : outcomes[k] # ScenarioTable[k]

\* C1: run() returns normally only if the eight outcomes were, in order, "",
\* "dup", "Invalid version", "Invalid nonce", "Invalid valid_until_block"
\* twice, "Invalid value" and "Invalid chain_id"; no run holding a mismatch
\* reaches the end.
C1_DoneOnlyIfAllMatch ==
    pc = "done" => outcomes = ScenarioTable /\ ~MismatchSeen

C1_Witness ==
    pc = "done" /\ Len(outcomes) = NumScenarios /\ ledgerKind = "any"

\* the i-th external call of a run: two connects, generate_key_pair and
\* get_block_number, then per scenario two connects, hash_data, sign_message
\* and send_raw_transaction
FixedOrder(i) ==
    IF i <= 4
    THEN [op |-> <<"connect", "connect", "generate_key_pair", "get_block_number">>[i],
          scn |-> 0]
    ELSE [op |-> <<"connect", "connect", "hash_data", "sign_message",
                   "send_raw_transaction">>[((i - 5) % 5) + 1],
          scn |-> ((i - 5) \div 5) + 1]

\* the field that tells scenario k's transaction t apart, h the captured height
IsVariant(k, t, h) ==
    /\ (t.version = 1) = (k = 3)
    /\ (Len(t.nonce) > 4) = (k = 4)
    /\ (t.valid_until_block = h) = (k = 5)
    /\ (t.valid_until_block = WrappingAdd(h, 200)) = (k = 6)
    /\ (t.valid_until_block = WrappingAdd(h, 80)) = (k \notin {5, 6})
    /\ (Len(t.value) = 31) = (k = 7)
    /\ (Len(t.chain_id) = 31) = (k = 8)

\* C2: the calls of a run come in one fixed order: one key generation, then
\* one height query, then the scenarios baseline, resubmitted baseline,
\* version, nonce, expiry-low, expiry-high, value, chain_id; a scenario is
\* under way only when the key and the height are known and every earlier
\* scenario's outcome has been observed and matched.
C2_FixedOrder ==
    /\ \A i \in 1..Len(calls) :
          /\ calls[i].op = FixedOrder(i).op
          /\ calls[i].scn = FixedOrder(i).scn
          /\ calls[i].op = "send_raw_transaction" =>
                IsVariant(calls[i].scn, calls[i].req.transaction, start_block_number[1])
    /\ scn >= 1 =>
          /\ key_id # NoKey
          /\ start_block_number # NoHeight
          /\ Len(outcomes) >= scn - 1
          /\ \A j \in 1..(scn - 1) : outcomes[j] = ScenarioTable[j]

C2_Witness ==
    /\ Len(calls) = 4 + 5 * NumScenarios
    /\ pending # {}
    /\ calls[3].op = "generate_key_pair"
    /\ calls[4].op = "get_block_number"

\* C3: once an outcome differs from the table the run halts in the failed
\* state: it is at the assertion or has panicked, and from then on no call
\* is issued, so no later scenario is hashed, signed or submitted and the
\* mismatching one is not submitted again.
C3_HaltOnMismatch ==
    /\ [](MismatchSeen => pc \in {"assert_eq", "panicked"})
    /\ [][MismatchSeen => calls' = calls /\ pc' \in {pc, "panicked"}]_vars

C3_Witness ==
    /\ MismatchSeen
    /\ pc = "panicked"
    /\ failure = "mismatch"
    /\ scn = 3
    /\ Len(SubmitsOf(3)) = 1

\* C4: scenario 2 submits the transaction of scenario 1 again, field for
\* field, so with the same encoded bytes and the same hash; a controller
\* that enforces the rules and remembers accepted hashes answers it "dup".
C4_ResubmitIsDup ==
    /\ Len(Submits) >= 2 =>
          /\ Submits[2].req.transaction = Submits[1].req.transaction
          /\ Encode(Submits[2].req.transaction) = Encode(Submits[1].req.transaction)
          /\ Submits[2].req.transaction_hash = Submits[1].req.transaction_hash
    /\ (ledgerKind = "rules" /\ Len(outcomes) >= 2 /\ outcomes[1] = "") =>
          outcomes[2] = "dup"

C4_Witness ==
    /\ ledgerKind = "rules"
    /\ Len(outcomes) >= 2
    /\ outcomes[1] = ""
    /\ outcomes[2] = "dup"
    /\ Submits[1].req.transaction_hash \in pool

C6_BaselineAdmitted ==
    /\ scn >= 1 =>
          LET t == build_tx(overflow_checks, start_block_number[1])
          IN  /\ ~Panicked(t)
              /\ Violations(t, start_block_number[1]) = {}
    /\ (/\ ledgerKind = "rules"
        /\ pc = "assert_eq"
        /\ scn = 1
        /\ submit_height = start_block_number) => outcomes[1] = ""

\* C7 as stated: at most one connection to each service is ever opened.
C7_OneConnectionEach == kms_conns <= 1 /\ rpc_conns <= 1

\* C7, amended: run() opens one connection to each service and issues the
\* key generation and the height query on them; every send_tx() opens one
\* more to each service and issues its scenario's hash, sign and submit on
\* those, so a run opens at most nine connections to each service and no
\* two scenarios share one.
C7_ConnectionPerSendTx ==
    /\ kms_conns <= 1 + NumScenarios
    /\ rpc_conns <= 1 + NumScenarios
    /\ kms_conns <= 1 + scn
    /\ rpc_conns <= 1 + scn
    /\ \A i \in 1..Len(calls) :
          /\ calls[i].op \in {"generate_key_pair", "get_block_number"} =>
                calls[i].conn = 1
          /\ calls[i].op \in {"hash_data", "sign_message", "send_raw_transaction"} =>
                calls[i].conn = 1 + calls[i].scn

C7_Witness ==
    /\ kms_conns = 1 + NumScenarios
    /\ rpc_conns = 1 + NumScenarios
    /\ Len(Submits) = NumScenarios

\* C8: a failure of any external call itself, the submission included, aborts
\* the run as a fatal error; it never becomes a scenario's outcome and is
\* never compared with an expected string.
C8_InfraFailureIsFatal ==
    last_response.code = "Unavailable" =>
        /\ pc = "panicked"
        /\ failure = "call"
        /\ Len(outcomes) < scn

\* C9: send_tx() returns "" if and only if the controller acknowledged the
\* submission, and returns the status message whenever it answered with an
\* error, so a rejected submission is never reported as success.
C9_SuccessIffAcknowledged ==
    pc = "assert_eq" =>
        /\ (outcomes[scn] = "") = (last_response.code = "Ok")
        /\ last_response.code # "Ok" => outcomes[scn] = last_response.message

\* C10: a scenario issues its submission once whatever the answer: a run
\* that returns normally has submitted eight times, a run that fails in
\* scenario k at most k times.
C10_OneSubmitPerScenario ==
    /\ \A k \in 1..NumScenarios :
          /\ Len(SubmitsOf(k)) <= 1
          /\ Len(outcomes) >= k => Len(SubmitsOf(k)) = 1
    /\ pc = "done" => Len(Submits) = NumScenarios
    /\ pc = "panicked" => Len(Submits) <= scn

C10_Witness ==
    /\ pc = "panicked"
    /\ scn = 5
    /\ Len(Submits) = 5
    /\ last_response.code = "Unavailable"

\* the calls of scenario k with operation op
CallsOf(k, op) == SelectSeq(calls, LAMBDA c : c.op = op /\ c.scn = k)

\* C11: a run generates its key pair once, and every hash request, sign
\* request and witness uses that identity: the requests carry the key id
\* the kms issued and the witness sender is the address it issued.
C11_OneIdentity ==
    /\ Cardinality({i \in 1..Len(calls) : calls[i].op = "generate_key_pair"}) <= 1
    /\ Cardinality(kms_keys) <= 1
    /\ \A i \in 1..Len(calls) :
          /\ calls[i].op \in {"hash_data", "sign_message"} =>
                \E id \in kms_keys : calls[i].req.key_id = id.key_id
          /\ calls[i].op = "send_raw_transaction" =>
                \E id \in kms_keys : calls[i].req.witness.sender = id.address

C11_Witness ==
    /\ Len(Submits) = NumScenarios
    /\ kms_keys = {[key_id |-> 2, address |-> Bytes(20, 2)]}
    /\ Submits[NumScenarios].req.witness.sender = Bytes(20, 2)
    /\ CallsOf(NumScenarios, "sign_message")[1].req.key_id = 2

\* the fields in which transactions a and b differ
DiffFields(a, b) == {f \in DOMAIN a : a[f] # b[f]}

\* the field scenario k's variant is named for
NamedField(k) ==
    CASE k = 3 -> "version"
      [] k = 4 -> "nonce"
      [] k = 5 -> "valid_until_block"
      [] k = 6 -> "valid_until_block"
      [] k = 7 -> "value"
      [] k = 8 -> "chain_id"

C13_EnvelopeConsistent ==
    \A k \in 1..NumScenarios :
       Len(CallsOf(k, "send_raw_transaction")) >= 1 =>
          LET e == CallsOf(k, "send_raw_transaction")[1].req
              h == CallsOf(k, "hash_data")[1].req
              g == CallsOf(k, "sign_message")[1].req
          IN  /\ e.kind = "NormalTx"
              /\ e.transaction = ScenarioTx(k, overflow_checks, start_block_number[1])
              /\ h.data = Encode(e.transaction)
              /\ e.transaction_hash = KmsHash(h.data)
              /\ g.msg = e.transaction_hash
              /\ e.witness.signature = KmsSign(g.key_id, g.msg)
              /\ \A j \in 1..(k - 1) :
                    LET d == CallsOf(j, "send_raw_transaction")[1].req
                    IN  d.transaction # e.transaction =>
                           /\ d.transaction_hash # e.transaction_hash
                           /\ d.witness.signature # e.witness.signature

C13_Witness ==
    /\ Len(Submits) = NumScenarios
    /\ Submits[8].req.transaction_hash = KmsHash(Encode(Submits[8].req.transaction))
    /\ Submits[8].req.transaction_hash # Submits[1].req.transaction_hash
    /\ Submits[8].req.witness.signature.signed = Submits[8].req.transaction_hash

\* the place of an operation within a scenario
Rank(op) ==
    CASE op = "connect" -> 0
      [] op = "hash_data" -> 1
      [] op = "sign_message" -> 2
      [] op = "send_raw_transaction" -> 3
      [] OTHER -> 0

\* C14: within a scenario the calls go out in the order hash, sign, submit,
\* each once; a call is issued only when no call awaits its response, so at
\* most one call is outstanding at any time, and it is the latest one.
C14_OneCallAtATime ==
    /\ [](/\ Cardinality(pending) <= 1
          /\ pending \subseteq {Len(calls)}
          /\ \A i, j \in 1..Len(calls) :
                (i < j /\ calls[i].scn = calls[j].scn /\ calls[i].scn >= 1) =>
                   /\ Rank(calls[i].op) <= Rank(calls[j].op)
                   /\ Rank(calls[j].op) >= 1 => Rank(calls[i].op) < Rank(calls[j].op))
    /\ [][calls' # calls => pending = {} /\ Len(calls') = Len(calls) + 1]_vars

C14_Witness ==
    /\ pending = {Len(calls)}
    /\ Outstanding.op = "send_raw_transaction"
    /\ scn = NumScenarios
    /\ calls[Len(calls) - 1].op = "sign_message"
    /\ calls[Len(calls) - 2].op = "hash_data"

\* C15: construction cannot fail at any 64-bit height: at the captured height
\* the baseline and the six variants are all returned, and their
\* valid_until_block is the height plus 80 (the height itself for expiry-low,
\* the height plus 200 for expiry-high) as an integer, with no overflow,
\* wrap-around or abort.
C15_ConstructionCannotFail ==
    start_block_number # NoHeight =>
       \A k \in 1..NumScenarios :
          LET h == start_block_number[1]
              offset == CASE k = 5 -> 0 [] k = 6 -> 200 [] OTHER -> 80
              t == ScenarioTx(k, overflow_checks, h)
          IN  /\ ~Panicked(t)
              /\ ~Overflows(h, offset)
              /\ t.valid_until_block = h + offset

\* run() has returned or panicked
Terminated == pc \in {"done", "panicked"}

\* C16: if every call in flight is eventually answered, every run ends: in
\* done, after the eighth scenario's outcome, or in the failed state; until
\* then the run can always take a step or is waiting for an answer.
C16_Terminates ==
    /\ <>Terminated
    /\ [](pc = "done" => Len(outcomes) = NumScenarios)
    /\ [](pc = "panicked" => failure \in {"call", "overflow", "mismatch"})
    /\ [](Terminated \/ pending # {} \/ ENABLED ProgramStep)

C16_Witness ==
    /\ pc = "done"
    /\ scn = NumScenarios
    /\ pending = {}
    /\ advances = MaxAdvances

\* the growth of the chain between the height query and the last submission
\* answered, when the two heights are at the same end of the u64 range
Drift == submit_height[1] - start_block_number[1]

\* C17: the height is queried once, before the first scenario, and never
\* again: every transaction submitted is the one its scenario constructs
\* from that height.  Against a controller enforcing the rules whose height
\* only grows, as long as the height at every submission is the captured
\* height plus d, 0 <= d < 80, construction does not abort the run and every
\* scenario's outcome is the one of the table.
C17_StableUnderGrowth ==
    /\ Cardinality({i \in 1..Len(calls) : calls[i].op = "get_block_number"}) <= 1
    /\ \A i \in 1..Len(calls) :
          /\ calls[i].op = "get_block_number" =>
                \A j \in 1..i : calls[j].op # "send_raw_transaction"
          /\ calls[i].op = "send_raw_transaction" =>
                calls[i].req.transaction
                   = ScenarioTx(calls[i].scn, overflow_checks, start_block_number[1])
    /\ ledgerKind = "rules" => failure # "overflow"
    /\ (/\ ledgerKind = "rules"
        /\ pc = "assert_eq"
        /\ SameEnd(submit_height[1], start_block_number[1])
        /\ Drift \in 0..(ValidWindow - 1)) =>
           outcomes[scn] = ScenarioTable[scn]

====
